---- MODULE Spec2Model ----
(***************************************************************************)
(* A model of the HumanCell demo stack: the two SQLite record stores       *)
(* (storage.py, cloud_storage.py), the readers, prompt builder, client     *)
(* adapter and batch runner of tools/run_gemini.py, and the POST route of  *)
(* api.py.                                                                 *)
(*                                                                         *)
(* Python values are tagged records: None, S(chars), I(n), D(pairs).  A    *)
(* Python str is a sequence of one-character strings, so that str.replace, *)
(* str(), json.dumps and json.loads are computed character by character.   *)
(* A Python dict is a sequence of <<key, value>> pairs in insertion order. *)
(***************************************************************************)
EXTENDS Integers, Sequences, FiniteSets, TLC

VARIABLES
    cloud_db,      \* cloud_data.db: "nofile", "notable" (file, no table) or "table"
    cloud_rows,    \* rows of table cloud_strings, in rowid order
    cloud_seq,     \* sqlite_sequence value of cloud_strings (AUTOINCREMENT)
    data_db,       \* storage.py's data.db: "nofile", "notable" or "table"
    inputs_rows,   \* rows of storage.py's table inputs
    inputs_seq,    \* sqlite_sequence value of storage.py's inputs
    sq_db,         \* data/inputs.sqlite read by run_gemini.read_inputs
    sq_rows,       \* rows of its table inputs(id, route, received, result, ts)
    conns,         \* number of sqlite3 connections currently open
    res,           \* the last storage operation: its arguments and its outcome
    tmpl,          \* build_prompt: the template argument
    rec,           \* build_prompt: the record argument
    filled,        \* build_prompt: its outcome
    env,           \* call_gemini: what the import probes and the client do
    gres,          \* call_gemini: its outcome
    pc,            \* main: position of the batch runner
    args,          \* main: the parsed command line
    records,       \* main: the records read from the source
    idx,           \* main: number of records processed so far
    out_file,      \* data/gemini_results.jsonl, one entry per line
    exit_status,   \* main: its return value, or the exception that ended it
    api_log        \* api.py: the requests served and their responses

storeVars == <<cloud_db, cloud_rows, cloud_seq, data_db, inputs_rows, inputs_seq,
               sq_db, sq_rows, conns, res>>
promptVars == <<tmpl, rec, filled>>
geminiVars == <<env, gres>>
batchVars == <<pc, args, records, idx, out_file, exit_status>>
apiVars == <<api_log>>
vars == <<storeVars, promptVars, geminiVars, batchVars, apiVars>>

----------------------------------------------------------------------------
(* Python values *)

None == [t |-> "none"]
S(s) == [t |-> "str", v |-> s]
I(n) == [t |-> "int", v |-> n]
D(d) == [t |-> "dict", v |-> d]
L(l) == [t |-> "list", v |-> l]

Ok(v) == [ok |-> TRUE, v |-> v]
Raise(e) == [ok |-> FALSE, exc |-> e]

\* bool(value)
Truthy(x) ==
    CASE x.t = "none" -> FALSE
      [] x.t = "str" -> x.v # <<>>
      [] x.t = "int" -> x.v # 0
      [] x.t = "dict" -> x.v # <<>>

\* a or b
PyOr(a, b) == IF Truthy(a) THEN a ELSE b

\* key in d, for a dict given as its sequence of pairs
Has(d, k) == \E i \in 1..Len(d) : d[i][1] = k

\* d[key]
Get(d, k) == d[CHOOSE i \in 1..Len(d) : d[i][1] = k][2]

\* d.get(key, default)
GetOr(d, k, default) == IF Has(d, k) THEN Get(d, k) ELSE default

Digits == <<"0", "1", "2", "3", "4", "5", "6", "7", "8", "9">>

RECURSIVE NatToStr(_)
NatToStr(n) ==
    IF n < 10 THEN <<Digits[n + 1]>>
    ELSE NatToStr(n \div 10) \o <<Digits[(n % 10) + 1]>>

IntToStr(n) == IF n < 0 THEN <<"-">> \o NatToStr(0 - n) ELSE NatToStr(n)

\* str(x) for None, str and int
PyStr(x) ==
    CASE x.t = "none" -> <<"N", "o", "n", "e">>
      [] x.t = "str" -> x.v
      [] x.t = "int" -> IntToStr(x.v)

\* The characters of the dict keys that get serialised.
KeyChars(k) ==
    CASE k = "freeText" -> <<"f", "r", "e", "e", "T", "e", "x", "t">>
      [] k = "text" -> <<"t", "e", "x", "t">>
      [] k = "x" -> <<"x">>

RECURSIVE JsonEscape(_)
JsonEscape(s) ==
    IF s = <<>> THEN <<>>
    ELSE (IF Head(s) \in {"\"", "\\"} THEN <<"\\", Head(s)>> ELSE <<Head(s)>>)
         \o JsonEscape(Tail(s))

JsonQuote(s) == <<"\"">> \o JsonEscape(s) \o <<"\"">>

\* json.dumps(x) with the default separators ", " and ": "
RECURSIVE json_dumps(_)
RECURSIVE JsonItems(_)
JsonItems(d) ==
    IF d = <<>> THEN <<>>
    ELSE JsonQuote(KeyChars(d[1][1])) \o <<":", " ">> \o json_dumps(d[1][2])
         \o (IF Len(d) > 1 THEN <<",", " ">> ELSE <<>>) \o JsonItems(Tail(d))
json_dumps(x) ==
    CASE x.t = "none" -> <<"n", "u", "l", "l">>
      [] x.t = "str" -> JsonQuote(x.v)
      [] x.t = "int" -> IntToStr(x.v)
      [] x.t = "dict" -> <<"{">> \o JsonItems(x.v) \o <<"}">>

\* s.startswith(p)
StartsWith(s, p) == Len(s) >= Len(p) /\ SubSeq(s, 1, Len(p)) = p

\* s.replace(old, new) for a non-empty old: left to right, non-overlapping
RECURSIVE Replace(_, _, _)
Replace(s, old, new) ==
    IF Len(s) < Len(old) THEN s
    ELSE IF StartsWith(s, old)
         THEN new \o Replace(SubSeq(s, Len(old) + 1, Len(s)), old, new)
         ELSE <<Head(s)>> \o Replace(Tail(s), old, new)

\* old in s
Contains(s, old) == \E i \in 1..(Len(s) - Len(old) + 1) : SubSeq(s, i, i + Len(old) - 1) = old

----------------------------------------------------------------------------
(* tools/run_gemini.py: build_prompt *)

PH_text == <<"{", "t", "e", "x", "t", "}">>
PH_id == <<"{", "i", "d", "}">>
PH_route == <<"{", "r", "o", "u", "t", "e", "}">>
PH_ts == <<"{", "t", "s", "}">>
PH_received == <<"{", "r", "e", "c", "e", "i", "v", "e", "d", "}">>

\* A resolution that tries the nested text key before freeText.
resolve_text_textFirst(record) ==
    IF Has(record, "text") THEN Get(record, "text")
    ELSE IF Has(record, "received")
         THEN LET r == Get(record, "received") IN
              IF r.t = "dict"
              THEN PyOr(PyOr(GetOr(r.v, "text", None), GetOr(r.v, "freeText", None)),
                        S(json_dumps(r)))
              ELSE S(PyStr(r))
         ELSE S(<<>>)

\* The value of the local `text` before the replacements.
resolve_text(record) ==
    IF Has(record, "text") THEN Get(record, "text")
    ELSE IF Has(record, "received")
         THEN LET r == Get(record, "received") IN
              IF r.t = "dict"
              THEN PyOr(PyOr(GetOr(r.v, "freeText", None), GetOr(r.v, "text", None)),
                        S(json_dumps(r)))
              ELSE S(PyStr(r))
         ELSE S(<<>>)

\* The replacements with {id} done before {text}.
build_prompt_idFirst(template, record) ==
    LET text == PyOr(resolve_text(record), S(<<>>)) IN
    IF text.t # "str" THEN Raise("TypeError")
    ELSE LET f1 == Replace(template, PH_id, PyStr(GetOr(record, "id", S(<<>>))))
             f2 == Replace(f1, PH_text, text.v)
             f3 == Replace(f2, PH_route, PyStr(GetOr(record, "route", S(<<>>))))
             f4 == Replace(f3, PH_ts, PyStr(GetOr(record, "ts", S(<<>>))))
             f5 == Replace(f4, PH_received, json_dumps(GetOr(record, "received", D(<<>>))))
         IN Ok(f5)

\* str.replace raises TypeError when its second argument is not a str.
\* json.dumps cannot fail on the values a record holds here, so the except
\* branch of the last replacement is never taken.
build_prompt(template, record) ==
    LET text == PyOr(resolve_text(record), S(<<>>)) IN
    IF text.t # "str" THEN Raise("TypeError")
    ELSE LET f1 == Replace(template, PH_text, text.v)
             f2 == Replace(f1, PH_id, PyStr(GetOr(record, "id", S(<<>>))))
             f3 == Replace(f2, PH_route, PyStr(GetOr(record, "route", S(<<>>))))
             f4 == Replace(f3, PH_ts, PyStr(GetOr(record, "ts", S(<<>>))))
             f5 == Replace(f4, PH_received, json_dumps(GetOr(record, "received", D(<<>>))))
         IN Ok(f5)

----------------------------------------------------------------------------
(* Inputs of the prompt builder *)

Absent == [t |-> "absent"]
NotRun == [ok |-> FALSE, exc |-> "not run"]

\* A dict literal's item, left out when the value is Absent.
Field(k, x) == IF x = Absent THEN <<>> ELSE << <<k, x>> >>

Hello == <<"h", "e", "l", "l", "o">>
Hi == <<"h", "i">>

Templates ==
    { PH_text,
      PH_id,
      PH_id \o <<"-">> \o PH_route,
      <<"n", "o">>,
      <<"a">> \o PH_text \o <<"b">> \o PH_text,
      <<"{", "i">> \o PH_text \o <<"d", "}">>,
      PH_received \o PH_ts }

TextVals == {Absent, None, S(<<>>), S(Hello), S(PH_id), I(7)}

ReceivedDicts ==
    { D(Field("freeText", f) \o Field("text", x)) :
        f \in {Absent, S(<<>>), S(Hi)}, x \in {Absent, S(<<>>), S(<<"t">>)} }

ReceivedVals == {Absent, None, S(<<"r", "a", "w">>)} \cup ReceivedDicts

IdVals == {Absent, I(5), S(PH_text)}
RouteVals == {Absent, S(<<"r">>)}
TsVals == {Absent, S(<<"9">>)}

PromptRecords ==
    { Field("id", i) \o Field("text", x) \o Field("route", ro)
        \o Field("received", r) \o Field("ts", ts) :
        i \in IdVals, x \in TextVals, ro \in RouteVals, r \in ReceivedVals, ts \in TsVals }

PromptIdle == tmpl = <<>> /\ rec = <<>> /\ filled = NotRun

\* One call build_prompt(tmpl, rec).
BuildPrompt ==
    /\ filled = NotRun
    /\ tmpl # <<>>
    /\ filled' = build_prompt(tmpl, rec)
    /\ UNCHANGED <<tmpl, rec, storeVars, geminiVars, batchVars, apiVars>>

----------------------------------------------------------------------------
(* SQLite, as the three database files use it *)

MaxRows == 2

Min(a, b) == IF a < b THEN a ELSE b

RECURSIVE Reverse(_)
Reverse(s) == IF s = <<>> THEN <<>> ELSE Reverse(Tail(s)) \o <<Head(s)>>

\* SELECT ... LIMIT n: a negative n is no limit.
SqlLimit(rows, n) == IF n < 0 THEN rows ELSE SubSeq(rows, 1, Min(n, Len(rows)))

\* sqlite3.connect creates the file when it is missing.
Connected(db) == IF db = "nofile" THEN "notable" ELSE db

\* What an operation did: its outcome, the database it leaves, the connections
\* it opened and closed, and the statements it executed.
R(out, db, rows, seq, opened, closed, sql) ==
    [out |-> out, db |-> db, rows |-> rows, seq |-> seq,
     opened |-> opened, closed |-> closed, sql |-> sql]

DbError == Raise("sqlite3.Error")

\* The store's clock when the row after `seq` rows is inserted.
Timestamp(seq) == S(IntToStr(seq + 1))

----------------------------------------------------------------------------
(* cloud_storage.py *)

\* An id column that starts counting at 0.
cloud_rowid_fromZero(seq) == seq

\* id INTEGER PRIMARY KEY AUTOINCREMENT: one more than the largest id ever used.
cloud_rowid(seq) == seq + 1

\* The dict built from one selected row.
cloud_row_dict(r) ==
    << <<"id", I(r.id)>>, <<"text", r.text>>, <<"created_at", r.created_at>> >>

\* A close that is skipped when the body raised.
cloud_finally_onSuccessOnly(raised) == IF raised THEN 0 ELSE 1

\* finally: conn.close() - the connections closed on leaving the try block.
cloud_finally(raised) == 1

read_all_strings_from_cloud(fault, db, rows, seq) ==
    IF fault = "connect" THEN R(DbError, db, rows, seq, 0, 0, <<>>)
    ELSE IF fault = "create"
    THEN R(DbError, Connected(db), rows, seq, 1, cloud_finally(TRUE), <<"CREATE">>)
    ELSE IF fault = "select"
    THEN R(DbError, "table", rows, seq, 1, cloud_finally(TRUE), <<"CREATE", "SELECT">>)
    ELSE R(Ok([i \in 1..Len(rows) |-> cloud_row_dict(rows[i])]), "table", rows, seq,
           1, cloud_finally(FALSE), <<"CREATE", "SELECT">>)

\* Path.read_text: the file is read in text mode, where "\r\n" and a lone "\r"
\* both come out as "\n".
RECURSIVE read_text(_)
read_text(content) ==
    IF content = <<>> THEN <<>>
    ELSE IF StartsWith(content, <<"\r", "\n">>)
    THEN <<"\n">> \o read_text(SubSeq(content, 3, Len(content)))
    ELSE IF Head(content) = "\r" THEN <<"\n">> \o read_text(Tail(content))
    ELSE <<Head(content)>> \o read_text(Tail(content))

\* `file` is what the path names: Absent (no such file) or the file's content.
\* An INSERT that is not committed is rolled back when the connection closes.
store_txt_file_in_cloud(file, now, fault, db, rows, seq) ==
    IF file = Absent THEN R(Raise("FileNotFoundError"), db, rows, seq, 0, 0, <<>>)
    ELSE IF ~Truthy(S(read_text(file.v)))
    THEN R(Raise("ValueError"), db, rows, seq, 0, 0, <<>>)
    ELSE IF fault = "connect" THEN R(DbError, db, rows, seq, 0, 0, <<>>)
    ELSE IF fault = "create"
    THEN R(DbError, Connected(db), rows, seq, 1, cloud_finally(TRUE), <<"CREATE">>)
    ELSE IF fault = "insert"
    THEN R(DbError, "table", rows, seq, 1, cloud_finally(TRUE), <<"CREATE", "INSERT">>)
    ELSE IF fault = "commit"
    THEN R(DbError, "table", rows, seq, 1, cloud_finally(TRUE),
           <<"CREATE", "INSERT", "COMMIT">>)
    ELSE LET id == cloud_rowid(seq) IN
         R(Ok(I(id)), "table",
           Append(rows, [id |-> id, text |-> S(read_text(file.v)), created_at |-> now]),
           id,
           1, cloud_finally(FALSE), <<"CREATE", "INSERT", "COMMIT">>)

----------------------------------------------------------------------------
(* storage.py *)

\* mkdir, connect, CREATE TABLE IF NOT EXISTS, commit, close.
init_db(fault, db, rows, seq) ==
    IF fault = "init_connect" THEN R(DbError, db, rows, seq, 0, 0, <<>>)
    ELSE IF fault = "init_create"
    THEN R(DbError, Connected(db), rows, seq, 1, 1, <<"CREATE">>)
    ELSE IF fault = "init_commit"
    THEN R(DbError, "table", rows, seq, 1, 1, <<"CREATE", "COMMIT">>)
    ELSE R(Ok(None), "table", rows, seq, 1, 1, <<"CREATE", "COMMIT">>)

\* init_db, then a second connection that is returned open.
_get_conn(fault, db, rows, seq) ==
    LET i == init_db(fault, db, rows, seq) IN
    IF ~i.out.ok THEN i
    ELSE IF fault = "connect" THEN R(DbError, i.db, rows, seq, 1, 1, i.sql)
    ELSE R(Ok(None), i.db, rows, seq, 2, 1, i.sql)

\* The validation of save_input: `if text is None`.
save_input_rejects(text) == text = None

save_input(text, source, processed, now, fault, db, rows, seq) ==
    IF save_input_rejects(text) THEN R(Raise("ValueError"), db, rows, seq, 0, 0, <<>>)
    ELSE LET c == _get_conn(fault, db, rows, seq) IN
         IF ~c.out.ok THEN c
         ELSE IF fault = "insert"
         THEN R(DbError, c.db, rows, seq, 2, 2, c.sql \o <<"INSERT">>)
         ELSE IF fault = "commit"
         THEN R(DbError, c.db, rows, seq, 2, 2, c.sql \o <<"INSERT", "COMMIT">>)
         ELSE LET id == seq + 1 IN
              R(Ok(I(id)), c.db,
                Append(rows, [id |-> id, text |-> text, source |-> source,
                              processed |-> processed, created_at |-> now]),
                id, 2, 2, c.sql \o <<"INSERT", "COMMIT">>)

inputs_row_dict(r) ==
    << <<"id", I(r.id)>>, <<"text", r.text>>, <<"source", r.source>>,
       <<"processed", r.processed>>, <<"created_at", r.created_at>> >>

\* ORDER BY id DESC, with LIMIT ? only when `limit` is truthy.
get_all(limit, fault, db, rows, seq) ==
    LET c == _get_conn(fault, db, rows, seq) IN
    IF ~c.out.ok THEN c
    ELSE IF fault = "select" THEN R(DbError, c.db, rows, seq, 2, 2, c.sql \o <<"SELECT">>)
    ELSE LET desc == Reverse(rows)
             sel == IF Truthy(limit) THEN SqlLimit(desc, limit.v) ELSE desc
         IN R(Ok([i \in 1..Len(sel) |-> inputs_row_dict(sel[i])]), c.db, rows, seq,
              2, 2, c.sql \o <<"SELECT">>)

----------------------------------------------------------------------------
(* tools/run_gemini.py: the readers *)

\* The JSON documents a `received` column may hold.
Letters == <<"a", "b", "c", "d", "e">>

JsonUniverse ==
    { D(<<>>), D(<< <<"freeText", S(Hi)>> >>), D(<< <<"text", S(<<"t">>)>> >>),
      D(<< <<"x", I(1)>> >>), S(Hi), S(<<>>), I(0), I(1), None }
    \cup { D(<< <<"freeText", S(<<Letters[i]>>)>> >>) : i \in 1..Len(Letters) }

\* json.loads(s): the document whose serialisation s is, or a decode error.
json_loads(s) ==
    IF \E x \in JsonUniverse : json_dumps(x) = s
    THEN Ok(CHOOSE x \in JsonUniverse : json_dumps(x) = s)
    ELSE Raise("JSONDecodeError")

\* ORDER BY id DESC over rows kept in id order.
gemini_order(rows) == Reverse(rows)

\* The query of both readers: LIMIT is appended only when `limit` is truthy.
gemini_select(rows, limit) ==
    IF Truthy(limit) THEN SqlLimit(gemini_order(rows), limit.v) ELSE gemini_order(rows)

cloud_record(r) == << <<"id", I(r.id)>>, <<"text", r.text>>, <<"ts", r.created_at>> >>

\* A missing file gives []; a file without the table makes the SELECT fail.
read_cloud_strings(limit, fault, db, rows, seq) ==
    IF db = "nofile" THEN R(Ok(<<>>), db, rows, seq, 0, 0, <<>>)
    ELSE IF fault = "connect" THEN R(DbError, db, rows, seq, 0, 0, <<>>)
    ELSE IF fault = "select" \/ db = "notable"
    THEN R(DbError, db, rows, seq, 1, 1, <<"SELECT">>)
    ELSE LET sel == gemini_select(rows, limit) IN
         R(Ok([i \in 1..Len(sel) |-> cloud_record(sel[i])]), db, rows, seq,
           1, 1, <<"SELECT">>)

\* rec = json.loads(received) if received else received, the raw value on failure
inputs_received(received) ==
    IF Truthy(received)
    THEN (IF received.t = "str" /\ json_loads(received.v).ok
          THEN json_loads(received.v).v ELSE received)
    ELSE received

inputs_record(r) ==
    << <<"id", I(r.id)>>, <<"route", r.route>>, <<"received", inputs_received(r.received)>>,
       <<"result", r.result>>, <<"ts", r.ts>> >>

read_inputs(limit, fault, db, rows, seq) ==
    IF db = "nofile" THEN R(Ok(<<>>), db, rows, seq, 0, 0, <<>>)
    ELSE IF fault = "connect" THEN R(DbError, db, rows, seq, 0, 0, <<>>)
    ELSE IF fault = "select" \/ db = "notable"
    THEN R(DbError, db, rows, seq, 1, 1, <<"SELECT">>)
    ELSE LET sel == gemini_select(rows, limit) IN
         R(Ok([i \in 1..Len(sel) |-> inputs_record(sel[i])]), db, rows, seq,
           1, 1, <<"SELECT">>)

\* The writer of data/inputs.sqlite is not among the sources: one appended row
\* with the next id, as the record store's append is specified.
inputs_sqlite_append(route, received, now, rows, seq) ==
    [rows |-> Append(rows, [id |-> seq + 1, route |-> route, received |-> received,
                            result |-> None, ts |-> now]),
     seq |-> seq + 1]

----------------------------------------------------------------------------
(* The storage operations as steps *)

Files == {Absent, S(<<>>), S(<<"a">>), S(<<"b">>), S(<<"c", "\r", "\n", "d", "\r">>)}
SaveTexts == {None, S(<<>>), S(<<"a">>)}
MaxLimit == 2
Limits == {None} \cup {I(k) : k \in (0 - 1)..MaxLimit}
ReceivedColumns ==
    { S(<<"r", "a", "w">>), S(json_dumps(D(<< <<"freeText", S(Hi)>> >>))) }

TotalRows == Len(cloud_rows) + Len(inputs_rows) + Len(sq_rows)

NoOp == [op |-> "none", arg |-> None, fault |-> "none", out |-> Ok(None),
         opened |-> 0, closed |-> 0, sql |-> <<>>]

Done(op, arg, fault, r) ==
    [op |-> op, arg |-> arg, fault |-> fault, out |-> r.out,
     opened |-> r.opened, closed |-> r.closed, sql |-> r.sql]

\* The same for a reader, whose return value is a Python list.
DoneList(op, arg, fault, r) ==
    Done(op, arg, fault, [r EXCEPT !.out = IF r.out.ok THEN Ok(L(r.out.v)) ELSE r.out])

\* The inputs tried: each fault with the plain argument, each argument without
\* a fault.
OneAtATime(plain, fault) == plain \/ fault = "none"

StoreIdle ==
    /\ cloud_db = "nofile" /\ cloud_rows = <<>> /\ cloud_seq = 0
    /\ data_db = "nofile" /\ inputs_rows = <<>> /\ inputs_seq = 0
    /\ sq_db = "nofile" /\ sq_rows = <<>>
    /\ conns = 0 /\ res = NoOp

otherThanStore == <<promptVars, geminiVars, batchVars, apiVars>>

StoreTxtFileInCloud ==
    \E file \in Files,
       fault \in {"none", "connect", "create", "insert", "commit"} :
        LET r == store_txt_file_in_cloud(file, Timestamp(cloud_seq), fault, cloud_db, cloud_rows, cloud_seq) IN
        /\ TotalRows < MaxRows
        /\ OneAtATime(file = S(<<"a">>), fault)
        /\ cloud_db' = r.db /\ cloud_rows' = r.rows /\ cloud_seq' = r.seq
        /\ conns' = conns + r.opened - r.closed
        /\ res' = Done("store_txt_file_in_cloud", file, fault, r)
        /\ UNCHANGED <<data_db, inputs_rows, inputs_seq, sq_db, sq_rows, otherThanStore>>

ReadAllStringsFromCloud ==
    \E fault \in {"none", "connect", "create", "select"} :
        LET r == read_all_strings_from_cloud(fault, cloud_db, cloud_rows, cloud_seq) IN
        /\ cloud_db' = r.db /\ cloud_rows' = r.rows /\ cloud_seq' = r.seq
        /\ conns' = conns + r.opened - r.closed
        /\ res' = DoneList("read_all_strings_from_cloud", None, fault, r)
        /\ UNCHANGED <<data_db, inputs_rows, inputs_seq, sq_db, sq_rows, otherThanStore>>

ReadCloudStrings ==
    \E limit \in Limits, fault \in {"none", "connect", "select"} :
        LET r == read_cloud_strings(limit, fault, cloud_db, cloud_rows, cloud_seq) IN
        /\ OneAtATime(limit = None, fault)
        /\ cloud_db' = r.db /\ cloud_rows' = r.rows /\ cloud_seq' = r.seq
        /\ conns' = conns + r.opened - r.closed
        /\ res' = DoneList("read_cloud_strings", limit, fault, r)
        /\ UNCHANGED <<data_db, inputs_rows, inputs_seq, sq_db, sq_rows, otherThanStore>>

InitDb ==
    \E fault \in {"none", "init_connect", "init_create", "init_commit"} :
        LET r == init_db(fault, data_db, inputs_rows, inputs_seq) IN
        /\ data_db' = r.db /\ inputs_rows' = r.rows /\ inputs_seq' = r.seq
        /\ conns' = conns + r.opened - r.closed
        /\ res' = Done("init_db", None, fault, r)
        /\ UNCHANGED <<cloud_db, cloud_rows, cloud_seq, sq_db, sq_rows, otherThanStore>>

SaveInput ==
    \E text \in SaveTexts,
       fault \in {"none", "init_connect", "init_create", "init_commit",
                  "connect", "insert", "commit"} :
        LET r == save_input(text, S(<<"f", "o", "r", "m">>), None, Timestamp(inputs_seq), fault,
                            data_db, inputs_rows, inputs_seq) IN
        /\ TotalRows < MaxRows
        /\ OneAtATime(text = S(<<"a">>), fault)
        /\ data_db' = r.db /\ inputs_rows' = r.rows /\ inputs_seq' = r.seq
        /\ conns' = conns + r.opened - r.closed
        /\ res' = Done("save_input", text, fault, r)
        /\ UNCHANGED <<cloud_db, cloud_rows, cloud_seq, sq_db, sq_rows, otherThanStore>>

GetAll ==
    \E limit \in Limits,
       fault \in {"none", "init_connect", "init_create", "init_commit", "connect", "select"} :
        LET r == get_all(limit, fault, data_db, inputs_rows, inputs_seq) IN
        /\ OneAtATime(limit = None, fault)
        /\ data_db' = r.db /\ inputs_rows' = r.rows /\ inputs_seq' = r.seq
        /\ conns' = conns + r.opened - r.closed
        /\ res' = DoneList("get_all", limit, fault, r)
        /\ UNCHANGED <<cloud_db, cloud_rows, cloud_seq, sq_db, sq_rows, otherThanStore>>

ReadInputs ==
    \E limit \in Limits, fault \in {"none", "connect", "select"} :
        LET r == read_inputs(limit, fault, sq_db, sq_rows, Len(sq_rows)) IN
        /\ OneAtATime(limit = None, fault)
        /\ sq_db' = r.db /\ sq_rows' = r.rows
        /\ conns' = conns + r.opened - r.closed
        /\ res' = DoneList("read_inputs", limit, fault, r)
        /\ UNCHANGED <<cloud_db, cloud_rows, cloud_seq, data_db, inputs_rows, inputs_seq,
                       otherThanStore>>

\* Another program appends a row to data/inputs.sqlite.
InputsSqliteAppend ==
    \E received \in ReceivedColumns :
        LET w == inputs_sqlite_append(S(<<"r">>), received, Timestamp(Len(sq_rows)), sq_rows, Len(sq_rows)) IN
        /\ TotalRows < MaxRows
        /\ sq_db' = "table" /\ sq_rows' = w.rows
        /\ res' = NoOp
        /\ UNCHANGED <<cloud_db, cloud_rows, cloud_seq, data_db, inputs_rows, inputs_seq,
                       conns, otherThanStore>>

----------------------------------------------------------------------------
(* tools/run_gemini.py: call_gemini *)

\* str(ImportError(...)): the install hint of the final raise.
InstallHint == <<"p", "i", "p", " ", "i", "n", "s", "t", "a", "l", "l">>

RaiseMsg(e, m) == [ok |-> FALSE, exc |-> e, msg |-> m]

Reply == <<"o", "k">>
ReprResp == <<"<", "r", "e", "s", "p", ">">>

\* What the environment of one call does.  m1 is `import google.generativeai`,
\* m2 is `from google import genai`; *_configure and *_generate say whether the
\* module has the attribute and what calling it does; m1_client is
\* genai.Client().generate_text.
GeminiEnvs ==
    [ m1 : {"absent", "present"},
      m1_configure : {"ok", "raises"},
      m1_generate : {"missing", "text", "candidates", "other",
                     "raises_network", "raises_quota", "raises_malformed"},
      m1_client : {"missing", "text", "raises_network"},
      m2 : {"absent", "present"},
      m2_configure : {"ok", "raises"},
      m2_generate : {"missing", "text", "other", "raises_network"} ]

Raises(outcome) == outcome \in {"raises_network", "raises_quota", "raises_malformed"}

Response(model, text) ==
    << <<"model", S(model)>>, <<"text", S(text)>>, <<"raw", S(ReprResp)>> >>

\* The first try block: a returned response, or "fell" when the block was left
\* by its except clause or ran to its end.  A failed configure is ignored.
gemini_first(prompt, model, e) ==
    IF e.m1 = "absent" THEN [fell |-> TRUE]
    ELSE IF e.m1_generate # "missing"
    THEN (IF Raises(e.m1_generate) THEN [fell |-> TRUE]
          ELSE [fell |-> FALSE,
                v |-> Response(model, IF e.m1_generate = "other" THEN ReprResp ELSE Reply)])
    ELSE IF e.m1_client # "missing"
    THEN (IF Raises(e.m1_client) THEN [fell |-> TRUE]
          ELSE [fell |-> FALSE, v |-> Response(model, Reply)])
    ELSE [fell |-> TRUE]

\* The second try block, whose except clause passes.
gemini_second(prompt, model, e) ==
    IF e.m2 = "absent" THEN [fell |-> TRUE]
    ELSE IF e.m2_generate = "missing" \/ Raises(e.m2_generate) THEN [fell |-> TRUE]
    ELSE [fell |-> FALSE,
          v |-> Response(model, IF e.m2_generate = "other" THEN ReprResp ELSE Reply)]

call_gemini(prompt, model, e) ==
    LET a == gemini_first(prompt, model, e)
        b == gemini_second(prompt, model, e)
    IN IF ~a.fell THEN Ok(a.v)
       ELSE IF ~b.fell THEN Ok(b.v)
       ELSE RaiseMsg("ImportError", InstallHint)

NoEnv == [m1 |-> "absent", m1_configure |-> "ok", m1_generate |-> "missing",
          m1_client |-> "missing", m2 |-> "absent", m2_configure |-> "ok",
          m2_generate |-> "missing"]

GeminiIdle == env = NoEnv /\ gres = NotRun

ModelName == <<"t", "e", "x", "t", "-", "b", "i", "s", "o", "n", "-", "0", "0", "1">>

\* One call call_gemini("a", model) in the environment env.
CallGemini ==
    /\ gres = NotRun
    /\ gres' = call_gemini(<<"a">>, ModelName, env)
    /\ UNCHANGED <<env, storeVars, promptVars, batchVars, apiVars>>

----------------------------------------------------------------------------
(* tools/run_gemini.py: main *)

DefaultTemplate ==
    <<"S", "u", "m", "m", "a", "r", "i", "z", "e", " ", "t", "h", "e", " ", "f", "o", "l", "l", "o", "w", "i", "n", "g", " ", "t", "e", "x", "t", ":", "\n", "\n">>
    \o PH_text \o <<"\n", "\n", "S", "u", "m", "m", "a", "r", "y", ":">>

\* The try/except around the call: ImportError and any other Exception are
\* recorded under `error`; nothing is re-raised.
main_handle_importErrorEscapes(outcome) ==
    IF outcome.ok THEN [abort |-> FALSE, response |-> D(outcome.v), error |-> Absent]
    ELSE IF outcome.exc = "ImportError"
    THEN [abort |-> TRUE, response |-> None, error |-> Absent]
    ELSE [abort |-> FALSE, response |-> None, error |-> S(outcome.msg)]

main_handle(outcome) ==
    IF outcome.ok THEN [abort |-> FALSE, response |-> D(outcome.v), error |-> Absent]
    ELSE IF outcome.exc = "ImportError"
    THEN [abort |-> FALSE, response |-> None, error |-> S(outcome.msg)]
    ELSE [abort |-> FALSE, response |-> None, error |-> S(outcome.msg)]

\* result = {"record": rec, "prompt": prompt, "response": ...} (+ "error")
result_line(record, prompt, h) ==
    << <<"record", D(record)>>, <<"prompt", S(prompt)>>, <<"response", h.response>> >>
    \o Field("error", h.error)

MaxBatchRows == 3

\* cloud_strings after n appends of "a", "b", "c", ...
CloudStore(n) ==
    [i \in 1..n |-> [id |-> i, text |-> S(<<Letters[i]>>), created_at |-> Timestamp(i - 1)]]

\* data/inputs.sqlite after n appends.
SqStore(n) ==
    [i \in 1..n |->
        [id |-> i, route |-> S(<<"r">>),
         received |-> IF i % 2 = 1
                      THEN S(json_dumps(D(<< <<"freeText", S(<<Letters[i]>>)>> >>)))
                      ELSE S(<<Letters[i]>>),
         result |-> None, ts |-> Timestamp(i - 1)]]

OldLine == << <<"record", D(<<>>)>>, <<"prompt", S(<<"o", "l", "d">>)>>, <<"response", None>> >>

\* The environments the batch runner's calls are run in.
BatchEnvs ==
    { e \in GeminiEnvs :
        /\ e.m1_configure = "ok" /\ e.m2_configure = "ok" /\ e.m1_client = "missing"
        /\ \/ e.m1 = "absent" /\ e.m1_generate = "missing"
           \/ e.m1 = "present" /\ e.m1_generate \in {"text", "other", "raises_network"}
        /\ \/ e.m2 = "absent" /\ e.m2_generate = "missing"
           \/ e.m2 = "present" /\ e.m2_generate = "text" /\ e.m1_generate = "raises_network" }

BatchArgs ==
    [ source : {"cloud", "inputs"},
      limit : {I(k) : k \in 0..MaxLimit},
      template : {None, S(PH_id \o <<":">> \o PH_text)},
      call : BOOLEAN ]

NoArgs == [source |-> "cloud", limit |-> I(0), template |-> None, call |-> FALSE]

BatchIdle ==
    /\ pc = "idle" /\ args = NoArgs /\ records = <<>> /\ idx = 0
    /\ out_file = <<>> /\ exit_status = NotRun

\* tmpl = args.template or the default
main_template(a) == PyOr(a.template, S(DefaultTemplate)).v

\* Lines 167-191: parse, pick the template, read the records; return 0 when
\* there are none, and let a reader's exception end the run.
MainStart ==
    \E a \in BatchArgs, fault \in {"none", "connect", "select"} :
        LET r == IF a.source = "cloud"
                 THEN read_cloud_strings(a.limit, fault, cloud_db, cloud_rows, cloud_seq)
                 ELSE read_inputs(a.limit, fault, sq_db, sq_rows, Len(sq_rows))
        IN
        /\ pc = "idle"
        /\ args' = a
        /\ conns' = conns + r.opened - r.closed
        /\ res' = DoneList(IF a.source = "cloud" THEN "read_cloud_strings" ELSE "read_inputs",
                           a.limit, fault, r)
        /\ IF ~r.out.ok
           THEN records' = <<>> /\ pc' = "done" /\ exit_status' = r.out
           ELSE IF r.out.v = <<>>
           THEN records' = <<>> /\ pc' = "done" /\ exit_status' = Ok(0)
           ELSE records' = r.out.v /\ pc' = "loop" /\ exit_status' = exit_status
        /\ UNCHANGED <<cloud_db, cloud_rows, cloud_seq, data_db, inputs_rows, inputs_seq,
                       sq_db, sq_rows, idx, out_file, promptVars, geminiVars, apiVars>>

\* Lines 194-212: one iteration of the loop over the records.
MainRecord ==
    \E e \in IF args.call THEN BatchEnvs ELSE {NoEnv} :
        LET record == records[idx + 1]
            p == build_prompt(main_template(args), record)
            h == IF args.call THEN main_handle(call_gemini(p.v, ModelName, e))
                 ELSE [abort |-> FALSE, response |-> None, error |-> Absent]
        IN
        /\ pc = "loop" /\ idx < Len(records)
        /\ IF ~p.ok
           THEN pc' = "done" /\ exit_status' = p /\ UNCHANGED <<idx, out_file>>
           ELSE IF h.abort
           THEN pc' = "done" /\ exit_status' = Raise("ImportError")
                /\ UNCHANGED <<idx, out_file>>
           ELSE /\ out_file' = Append(out_file, result_line(record, p.v, h))
                /\ idx' = idx + 1
                /\ UNCHANGED <<pc, exit_status>>
        /\ UNCHANGED <<args, records, storeVars, promptVars, geminiVars, apiVars>>

\* Lines 214-215: the loop is over; return 0.
MainReturn ==
    /\ pc = "loop" /\ idx = Len(records)
    /\ pc' = "done" /\ exit_status' = Ok(0)
    /\ UNCHANGED <<args, records, idx, out_file, storeVars, promptVars, geminiVars, apiVars>>

----------------------------------------------------------------------------
(* api.py *)

MaxRequests == 2

HttpOk == 200
HttpBadRequest == 400
HttpNotFound == 404
HttpServerError == 500

\* request.get_json(force=True): the parsed body, or werkzeug's BadRequest when
\* the body is missing or is not JSON.
get_json(body) ==
    IF body = Absent THEN Raise("BadRequest")
    ELSE IF json_loads(body.v).ok THEN json_loads(body.v) ELSE Raise("BadRequest")

\* BadRequest is an Exception, so the except clause turns it into a 500.
receive_data(body) ==
    LET data == get_json(body) IN
    IF ~data.ok THEN [status |-> HttpServerError, kind |-> "error", echo |-> Absent]
    ELSE IF ~Truthy(data.v) THEN [status |-> HttpBadRequest, kind |-> "failed", echo |-> Absent]
    ELSE [status |-> HttpOk, kind |-> "success", echo |-> data.v]

home == [status |-> HttpOk, kind |-> "message", echo |-> Absent]

not_found == [status |-> HttpNotFound, kind |-> "error", echo |-> Absent]

Bodies == {Absent, S(<<"r", "a", "w">>), S(<<"{">>)} \cup {S(json_dumps(x)) : x \in JsonUniverse}

ApiIdle == api_log = <<>>

otherThanApi == <<storeVars, promptVars, geminiVars, batchVars>>

PostData ==
    \E body \in Bodies :
        /\ Len(api_log) < MaxRequests
        /\ api_log' = Append(api_log, [route |-> "POST /api/data", body |-> body,
                                       resp |-> receive_data(body)])
        /\ UNCHANGED otherThanApi

GetHome ==
    /\ Len(api_log) < MaxRequests
    /\ api_log' = Append(api_log, [route |-> "GET /", body |-> Absent, resp |-> home])
    /\ UNCHANGED otherThanApi

GetUnknown ==
    /\ Len(api_log) < MaxRequests
    /\ api_log' = Append(api_log, [route |-> "GET /nowhere", body |-> Absent,
                                   resp |-> not_found])
    /\ UNCHANGED otherThanApi

----------------------------------------------------------------------------
(* Specifications *)

\* The record stores, from three missing database files.
InitStore == StoreIdle /\ PromptIdle /\ GeminiIdle /\ BatchIdle /\ ApiIdle
NextStore ==
    \/ StoreTxtFileInCloud
    \/ ReadAllStringsFromCloud
    \/ ReadCloudStrings
    \/ InitDb
    \/ SaveInput
    \/ GetAll
    \/ ReadInputs
    \/ InputsSqliteAppend
SpecStore == InitStore /\ [][NextStore]_vars

\* build_prompt on each template and record.
InitPrompt ==
    /\ StoreIdle /\ GeminiIdle /\ BatchIdle /\ ApiIdle
    /\ tmpl \in Templates /\ rec \in PromptRecords /\ filled = NotRun
SpecPrompt == InitPrompt /\ [][BuildPrompt]_vars

\* call_gemini in each environment.
InitGemini ==
    /\ StoreIdle /\ PromptIdle /\ BatchIdle /\ ApiIdle
    /\ env \in GeminiEnvs /\ gres = NotRun
SpecGemini == InitGemini /\ [][CallGemini]_vars

\* One run of the batch runner over stores that hold 0..MaxBatchRows records and a
\* results log that is empty or holds an earlier line.
InitBatch ==
    /\ PromptIdle /\ GeminiIdle /\ ApiIdle
    /\  \E n \in 0..MaxBatchRows :
        /\ cloud_rows = CloudStore(n) /\ cloud_seq = n
        /\ cloud_db = IF n = 0 THEN "nofile" ELSE "table"
    /\  \E n \in 0..MaxBatchRows :
        /\ sq_rows = SqStore(n)
        /\ sq_db = IF n = 0 THEN "nofile" ELSE "table"
    /\ data_db = "nofile" /\ inputs_rows = <<>> /\ inputs_seq = 0
    /\ conns = 0 /\ res = NoOp
    /\ pc = "idle" /\ args = NoArgs /\ records = <<>> /\ idx = 0
    /\ out_file \in {<<>>, <<OldLine>>} /\ exit_status = NotRun
NextBatch == MainStart \/ MainRecord \/ MainReturn
SpecBatch == InitBatch /\ [][NextBatch]_vars

\* The HTTP surface serving up to MaxRequests requests.
InitApi == StoreIdle /\ PromptIdle /\ GeminiIdle /\ BatchIdle /\ ApiIdle
NextApi == PostData \/ GetHome \/ GetUnknown
SpecApi == InitApi /\ [][NextApi]_vars

Init == InitStore
Next == NextStore
Spec == SpecStore

----------------------------------------------------------------------------
(* Properties of the record stores, checked under SpecStore *)

IsAppend(r) == r.op \in {"save_input", "store_txt_file_in_cloud"}
IsReverseList(r) == r.op \in {"get_all", "read_cloud_strings", "read_inputs"}

\* The rows of the table an operation works on.
TableOf(r) ==
    CASE r.op \in {"store_txt_file_in_cloud", "read_all_strings_from_cloud",
                   "read_cloud_strings"} -> cloud_rows
      [] r.op \in {"init_db", "save_input", "get_all"} -> inputs_rows
      [] OTHER -> sq_rows

\* C1 as written: on an empty cloud store, a fault-free append of a file with
\* the non-empty content t succeeds and returns a positive integer id, and the
\* list() that follows it returns exactly one record, with text t, that id and
\* a created_at field.
C1_TextEqualsContent ==
    [][ /\ (res'.op = "store_txt_file_in_cloud" /\ res'.fault = "none"
            /\ res'.arg # Absent /\ Truthy(res'.arg))
           => (res'.out.ok /\ res'.out.v.t = "int" /\ res'.out.v.v > 0)
        /\ (res.op = "store_txt_file_in_cloud" /\ res.out.ok /\ Len(cloud_rows) = 1
            /\ res'.op = "read_all_strings_from_cloud" /\ res'.out.ok)
           => LET l == res'.out.v.v IN
              /\ Len(l) = 1
              /\ Get(l[1], "text") = res.arg
              /\ Get(l[1], "id") = res.out.v
              /\ res.out.v.t = "int" /\ res.out.v.v > 0
              /\ Has(l[1], "created_at") ]_vars

\* The content with its line ends normalised: "\r\n", then "\r", to "\n".
LineEndsNormalised(t) == Replace(Replace(t, <<"\r", "\n">>, <<"\n">>), <<"\r">>, <<"\n">>)

\* C1 amended: as above, with the record's text equal to t after "\r\n" and
\* "\r" have become "\n", which is t itself when t holds no carriage return.
C1_AppendThenList ==
    [][ /\ (res'.op = "store_txt_file_in_cloud" /\ res'.fault = "none"
            /\ res'.arg # Absent /\ Truthy(res'.arg))
           => (res'.out.ok /\ res'.out.v.t = "int" /\ res'.out.v.v > 0)
        /\ (res.op = "store_txt_file_in_cloud" /\ res.out.ok /\ Len(cloud_rows) = 1
            /\ res'.op = "read_all_strings_from_cloud" /\ res'.out.ok)
           => LET l == res'.out.v.v IN
              /\ Len(l) = 1
              /\ Get(l[1], "text") = S(LineEndsNormalised(res.arg.v))
              /\ (~Contains(res.arg.v, <<"\r">>) => Get(l[1], "text") = res.arg)
              /\ Get(l[1], "id") = res.out.v
              /\ res.out.v.t = "int" /\ res.out.v.v > 0
              /\ Has(l[1], "created_at") ]_vars

\* A list() that returned the one record appended to the empty cloud store
\* from a file with carriage returns.
C1_Witness ==
    /\ res.op = "read_all_strings_from_cloud" /\ res.out.ok
    /\ Len(res.out.v.v) = 1 /\ cloud_seq = 1
    /\ Get(res.out.v.v[1], "text") = S(<<"c", "\n", "d", "\n">>)
    /\ Get(res.out.v.v[1], "id") = I(1)

\* C2: in both stores an append of the empty string or of None fails with
\* ValueError and leaves the stored rows as they were.
C2_EmptyOrNoneRejected ==
    [][ (IsAppend(res') /\ res'.arg \in {None, S(<<>>)})
        => /\ res'.out = Raise("ValueError")
           /\ cloud_rows' = cloud_rows
           /\ inputs_rows' = inputs_rows ]_vars

\* C3: a reverse-order list with limit k >= 0 over n rows returns the min(k, n)
\* most recent rows in strictly descending id order, and all n rows in that
\* order when the limit is unspecified.
C3_ReverseListLimit ==
    (IsReverseList(res) /\ res.out.ok)
    => LET rows == TableOf(res)
           n == Len(rows)
           l == res.out.v.v
       IN IF res.arg = None
          THEN Len(l) = n /\ \A i \in 1..n : Get(l[i], "id") = I(rows[n + 1 - i].id)
          ELSE res.arg.v >= 0
               => /\ Len(l) = Min(res.arg.v, n)
                  /\ \A i \in 1..Len(l) : Get(l[i], "id") = I(rows[n + 1 - i].id)

DataStatements(sql) == {i \in 1..Len(sql) : sql[i] \in {"INSERT", "SELECT"}}

\* C9: after every storage operation, returned or raised, no connection is
\* left open: the operation closed each connection it opened, it opened one
\* whenever it executed a statement, and it ran at most one INSERT or SELECT.
C9_ConnectionsClosed ==
    /\ conns = 0
    /\ res.closed = res.opened
    /\ (res.sql # <<>> => res.opened >= 1)
    /\ Cardinality(DataStatements(res.sql)) <= 1

\* An append that raised from its INSERT, after opening its connection.
C9_Witness ==
    /\ res.op = "store_txt_file_in_cloud" /\ res.fault = "insert"
    /\ ~res.out.ok /\ res.opened = 1 /\ conns = 0

----------------------------------------------------------------------------
(* Properties of build_prompt, checked under SpecPrompt *)

Placeholders == {PH_text, PH_id, PH_route, PH_ts, PH_received}
NoPlaceholder(s) == \A ph \in Placeholders : ~Contains(s, ph)

\* The value the claim as written names: the first key that is present.
FirstPresentText(record) ==
    IF Has(record, "text") THEN Get(record, "text")
    ELSE IF Has(record, "received")
    THEN LET r == Get(record, "received") IN
         IF r.t = "dict"
         THEN (IF Has(r.v, "freeText") THEN Get(r.v, "freeText")
               ELSE IF Has(r.v, "text") THEN Get(r.v, "text")
               ELSE S(json_dumps(r)))
         ELSE S(PyStr(r))
    ELSE S(<<>>)

\* The first key that is present with a non-empty value; a null direct text
\* counts as the empty string.
FirstNonEmptyText(record) ==
    IF Has(record, "text")
    THEN (IF Get(record, "text") = None THEN S(<<>>) ELSE Get(record, "text"))
    ELSE IF Has(record, "received")
    THEN LET r == Get(record, "received") IN
         IF r.t = "dict"
         THEN (IF Has(r.v, "freeText") /\ Get(r.v, "freeText") \notin {None, S(<<>>)}
               THEN Get(r.v, "freeText")
               ELSE IF Has(r.v, "text") /\ Get(r.v, "text") \notin {None, S(<<>>)}
               THEN Get(r.v, "text")
               ELSE S(json_dumps(r)))
         ELSE S(PyStr(r))
    ELSE S(<<>>)

\* C7 as written: the value substituted for {text} is the first present of
\* the direct text, received.freeText, received.text, the serialised mapping,
\* the string conversion of a non-mapping received, and the empty string.
C7_FirstPresent ==
    (filled # NotRun /\ tmpl = PH_text /\ FirstPresentText(rec).t = "str"
     /\ NoPlaceholder(FirstPresentText(rec).v))
    => filled = Ok(FirstPresentText(rec).v)

\* C7 amended: for string or null fields, the value substituted for {text} is
\* the direct text (null as the empty string), else the first non-empty of
\* received.freeText and received.text, else the serialised mapping, else the
\* string conversion of a non-mapping received, else the empty string; with
\* the two examples of the claim.
C7_FirstNonEmpty ==
    /\ (filled # NotRun /\ tmpl = PH_text /\ FirstNonEmptyText(rec).t = "str"
        /\ NoPlaceholder(FirstNonEmptyText(rec).v))
       => filled = Ok(FirstNonEmptyText(rec).v)
    /\ (filled # NotRun /\ tmpl = PH_text /\ rec = << <<"text", S(Hello)>> >>)
       => filled = Ok(Hello)
    /\ (filled # NotRun /\ tmpl = PH_text
        /\ rec = << <<"received", D(<< <<"freeText", S(Hi)>> >>)>> >>)
       => filled = Ok(Hi)

\* An empty freeText was passed over for the text key beside it.
C7_Witness ==
    /\ tmpl = PH_text
    /\ rec = << <<"received", D(<< <<"freeText", S(<<>>)>>, <<"text", S(<<"t">>)>> >>)>> >>
    /\ filled = Ok(<<"t">>)

\* One pass over the template that substitutes every placeholder at once.
RECURSIVE Simultaneous(_, _, _)
Simultaneous(s, text, record) ==
    IF s = <<>> THEN <<>>
    ELSE IF StartsWith(s, PH_text)
    THEN text \o Simultaneous(SubSeq(s, Len(PH_text) + 1, Len(s)), text, record)
    ELSE IF StartsWith(s, PH_id)
    THEN PyStr(GetOr(record, "id", S(<<>>)))
         \o Simultaneous(SubSeq(s, Len(PH_id) + 1, Len(s)), text, record)
    ELSE IF StartsWith(s, PH_route)
    THEN PyStr(GetOr(record, "route", S(<<>>)))
         \o Simultaneous(SubSeq(s, Len(PH_route) + 1, Len(s)), text, record)
    ELSE IF StartsWith(s, PH_ts)
    THEN PyStr(GetOr(record, "ts", S(<<>>)))
         \o Simultaneous(SubSeq(s, Len(PH_ts) + 1, Len(s)), text, record)
    ELSE IF StartsWith(s, PH_received)
    THEN json_dumps(GetOr(record, "received", D(<<>>)))
         \o Simultaneous(SubSeq(s, Len(PH_received) + 1, Len(s)), text, record)
    ELSE <<Head(s)>> \o Simultaneous(Tail(s), text, record)

\* C10: the replacements run in the order {text}, {id}, {route}, {ts},
\* {received}, each on the output of the one before: an {id} inside the text
\* value is replaced by the id (template "{text}", text "{id}", id 5 gives
\* "5", not the one-pass result "{id}"), and a {text} brought in by the id
\* value is left as it is.
C10_SequentialReplacement ==
    /\ (filled # NotRun /\ tmpl = PH_text
        /\ rec = << <<"id", I(5)>>, <<"text", S(PH_id)>> >>)
       => (filled = Ok(<<"5">>) /\ filled # Ok(Simultaneous(tmpl, PH_id, rec)))
    /\ (filled # NotRun /\ filled.ok /\ tmpl = PH_text /\ Has(rec, "text")
        /\ Get(rec, "text") = S(PH_id) /\ GetOr(rec, "id", None) = I(5))
       => filled.v = <<"5">>
    /\ (filled # NotRun /\ filled.ok /\ tmpl = PH_id
        /\ GetOr(rec, "id", None) = S(PH_text))
       => filled.v = PH_text

\* The claim's example has run: the {id} inside the text value became "5".
C10_Witness ==
    /\ tmpl = PH_text /\ rec = << <<"id", I(5)>>, <<"text", S(PH_id)>> >>
    /\ filled = Ok(<<"5">>)

----------------------------------------------------------------------------
(* Properties of call_gemini, checked under SpecGemini *)

\* Neither probe finds a module with a way to generate text.
NoCapability(e) ==
    /\ e.m1 = "absent" \/ (e.m1_generate = "missing" /\ e.m1_client = "missing")
    /\ e.m2 = "absent" \/ e.m2_generate = "missing"

\* The first client found raises while it generates text.
GenerationFails(e) ==
    \/ e.m1 = "present" /\ Raises(e.m1_generate)
    \/ e.m1 = "present" /\ e.m1_generate = "missing" /\ Raises(e.m1_client)
    \/ /\ e.m1 = "absent" \/ (e.m1_generate = "missing" /\ e.m1_client = "missing")
       /\ e.m2 = "present" /\ Raises(e.m2_generate)

\* C5: call_gemini raises the ImportError with the install hint exactly when
\* no client capability is found, and a failure of a found client while it
\* generates text reaches the caller as an error other than that ImportError.
C5_UnavailableExactly ==
    gres # NotRun
    => /\ (~gres.ok /\ gres.exc = "ImportError") <=> NoCapability(env)
       /\ GenerationFails(env) => (~gres.ok /\ gres.exc # "ImportError")

----------------------------------------------------------------------------
(* Properties of the batch runner, checked under SpecBatch *)

\* The lines the results log held before the run.
OldCount == IF out_file # <<>> /\ out_file[1] = OldLine THEN 1 ELSE 0

\* The rows of the store the run reads.
SourceRows == IF args.source = "cloud" THEN cloud_rows ELSE sq_rows

\* The outcomes an adapter call can have: a response, the ImportError, and
\* any other exception.
AdapterOutcomes ==
    { Ok(Response(ModelName, Reply)),
      RaiseMsg("ImportError", InstallHint),
      RaiseMsg("RuntimeError", <<"q", "u", "o", "t", "a">>) }

\* C4: with --call, no outcome of the adapter call ends the run: each record
\* processed has appended exactly one line, holding the response or the error
\* text under "error", the loop reaches the last record and the run returns 0.
C4_NoRecordAborts ==
    /\ \A o \in AdapterOutcomes :
        /\ ~main_handle(o).abort
        /\ o.ok => (main_handle(o).response = D(o.v) /\ main_handle(o).error = Absent)
        /\ ~o.ok => (main_handle(o).response = None /\ main_handle(o).error = S(o.msg))
    /\ args.call
       => /\ pc \in {"loop", "done"} => Len(out_file) = OldCount + idx
          /\ (pc = "done" /\ records # <<>>)
             => (exit_status = Ok(0) /\ idx = Len(records))
          /\ \A i \in 1..idx :
                LET line == out_file[OldCount + i] IN
                /\ Get(line, "record") = D(records[i])
                /\ IF Has(line, "error")
                   THEN Get(line, "response") = None /\ Get(line, "error") = S(InstallHint)
                   ELSE Get(line, "response").t = "dict"

\* A finished run of three records whose first call raised the ImportError and
\* whose later calls answered.
C4_Witness ==
    /\ pc = "done" /\ args.call /\ Len(records) = 3 /\ exit_status = Ok(0)
    /\ Len(out_file) = OldCount + 3
    /\ Has(out_file[OldCount + 1], "error")
    /\ ~Has(out_file[OldCount + 2], "error")
    /\ ~Has(out_file[OldCount + 3], "error")

\* The prompt the claim expects for the i-th most recent row of the source.
ExpectedPrompt(i) ==
    LET n == Len(SourceRows) IN
    Replace(Replace(main_template(args), PH_text, <<Letters[n + 1 - i]>>),
            PH_id, IntToStr(n + 1 - i))

\* C6: without --call, a run with limit k over a store of n records returns 0
\* and appends exactly min(k, n) lines, for the most recent records first,
\* each with a null response, no error and the prompt of its record; earlier
\* lines stay, and nothing is appended when n = 0.
C6_DryRunLines ==
    (pc = "done" /\ ~args.call /\ res.out.ok)
    => LET n == Len(SourceRows)
           m == Min(args.limit.v, n)
       IN /\ exit_status = Ok(0)
          /\ Len(out_file) = OldCount + m
          /\ OldCount = 1 => out_file[1] = OldLine
          /\ \A i \in 1..m :
                LET line == out_file[OldCount + i] IN
                /\ Get(Get(line, "record").v, "id") = I(n + 1 - i)
                /\ Get(line, "response") = None
                /\ ~Has(line, "error")
                /\ Get(line, "prompt") = S(ExpectedPrompt(i))

----------------------------------------------------------------------------
(* Properties of the HTTP surface, checked under SpecApi *)

\* C8: POST /api/data answers 400 when the body is absent or is not JSON, and
\* 200 with the parsed payload echoed for every body that parses; 500 is left
\* for other exceptions.
C8_PostDataStatus ==
    \A i \in 1..Len(api_log) :
        api_log[i].route = "POST /api/data"
        => LET body == api_log[i].body
               resp == api_log[i].resp
           IN IF body = Absent \/ ~json_loads(body.v).ok
              THEN resp.status = HttpBadRequest
              ELSE resp.status = HttpOk /\ resp.echo = json_loads(body.v).v

====
